---- MODULE Spec2Model ----
(***************************************************************************)
(* AVL tree of spewspews/oldavl.  Three revisions of the tree are modelled: *)
(*   src/unnamed/part_001  package avl, Insert/Delete return (element,bool)*)
(*   src/avl.go            package avl, Delete returns only a bool         *)
(*   src/oldavl.go         package oldavl, pointer-to-slot, no results     *)
(* Nodes live in a heap (address -> Node); 0 is the nil pointer.  Elements *)
(* are pairs <<key, payload>> ordered by key only: the tests' Int is a key *)
(* with the payload "", the tests' IntString a key with a string.          *)
(***************************************************************************)
EXTENDS Integers, Sequences, FiniteSets, TLC

VARIABLES
    tree,   \* the avl.Tree: [h: heap, root, size]
    old,    \* the oldavl.Tree: [h: heap, root, size]
    ret,    \* the last call and what it returned
    vals,   \* the tests' reference map, key -> element stored for it
    ins,    \* keys ever passed to Insert
    dels,   \* keys some Delete reported found
    gone    \* keys a Delete reported found and no Insert has brought back

vars == <<tree, old, ret, vals, ins, dels, gone>>

\* ------------------------------------------------------------------ bounds
\* Int elements are 1..MaxInt
MaxInt == 8
\* the key range of the runs that carry more state per key
MaxSmall == 4
\* src/avl.go never lowers size: Insert is cut off at this size
MaxSize == 6

Keys == 1..MaxInt
SmallKeys == 1..MaxSmall
Ints == {<<k, "">> : k \in Keys}
SmallInts == {<<k, "">> : k \in SmallKeys}
IntStrings == SmallKeys \X {"x", "y"}

\* ------------------------------------------------------------- data model
Nil == 0
NoVal == <<0, "">>

\* type Node struct { Val; c [2]*Node; p *Node; b int8 }
Node(val, p) == [Val |-> val, c |-> [i \in 0..1 |-> Nil], p |-> p, b |-> 0]

\* &Node{...}: a fresh address, the smallest one not in use
NewId(h) == CHOOSE i \in 1..(Cardinality(DOMAIN h) + 1) :
                i \notin DOMAIN h /\ \A j \in 1..(i - 1) : j \in DOMAIN h

Alloc(h, id, val, p) ==
    [i \in DOMAIN h \cup {id} |-> IF i = id THEN Node(val, p) ELSE h[i]]

\* Ordered.Less of the tests' IntString: keys only
Less(a, b) == a[1] < b[1]

\* cmp with the two results exchanged
cmpSwapped(a, b) == IF Less(a, b) THEN 1 ELSE IF Less(b, a) THEN -1 ELSE 0

\* func cmp(a, b Ordered) int8
cmp(a, b) == IF Less(a, b) THEN -1 ELSE IF Less(b, a) THEN 1 ELSE 0

\* the comparison function handed to oldavl.NewTree: any int, sign matters
oldcmp(a, b) == a[1] - b[1]

\* a := (c + 1) / 2
Side(c) == (c + 1) \div 2

\* the state one call works on: the heap, the Tree fields, the named
\* results and locals shared through pointers, a pending panic, and the
\* rebalancing routines the fix-ups entered (the dbgLog lines)
Machine(t) ==
    [h |-> t.h, root |-> t.root, size |-> t.size, delval |-> NoVal,
     found |-> FALSE, min |-> NoVal, panic |-> "", log |-> <<>>]

Panicked(m) == m.panic # ""

Res(m, n, fix) == [m |-> m, n |-> n, fix |-> fix]

\* x, evaluated once, handed to F
Bind(x, F(_)) == CHOOSE y \in {F(v) : v \in {x}} : TRUE

\* ------------------------------------------------------ rotation engine
\* rotate without the re-parenting of the subtree that changes sides
rotateNoReparent(h, c, s) ==
    IF s = Nil \/ h[s].c[Side(c)] = Nil
    THEN [h |-> h, n |-> Nil, panic |-> "nil dereference"]
    ELSE LET a  == Side(c)
             r  == h[s].c[a]
             h1 == [h EXCEPT ![s].c[a] = h[r].c[1 - a]]
             h3 == [h1 EXCEPT ![r].c[1 - a] = s]
             h4 == [h3 EXCEPT ![r].p = h3[s].p]
             h5 == [h4 EXCEPT ![s].p = r]
         IN [h |-> h5, n |-> r, panic |-> ""]

\* rotate without s.p = r
rotateKeepsParent(h, c, s) ==
    IF s = Nil \/ h[s].c[Side(c)] = Nil
    THEN [h |-> h, n |-> Nil, panic |-> "nil dereference"]
    ELSE LET a  == Side(c)
             r  == h[s].c[a]
             h1 == [h EXCEPT ![s].c[a] = h[r].c[1 - a]]
             h2 == IF h1[s].c[a] # Nil
                   THEN [h1 EXCEPT ![h1[s].c[a]].p = s] ELSE h1
             h3 == [h2 EXCEPT ![r].c[1 - a] = s]
             h4 == [h3 EXCEPT ![r].p = h3[s].p]
         IN [h |-> h4, n |-> r, panic |-> ""]

\* func rotate(c int8, s *Node) *Node
rotate(h, c, s) ==
    IF s = Nil \/ h[s].c[Side(c)] = Nil
    THEN [h |-> h, n |-> Nil, panic |-> "nil dereference"]
    ELSE LET a  == Side(c)
             r  == h[s].c[a]
             h1 == [h EXCEPT ![s].c[a] = h[r].c[1 - a]]
             h2 == IF h1[s].c[a] # Nil
                   THEN [h1 EXCEPT ![h1[s].c[a]].p = s] ELSE h1
             h3 == [h2 EXCEPT ![r].c[1 - a] = s]
             h4 == [h3 EXCEPT ![r].p = h3[s].p]
             h5 == [h4 EXCEPT ![s].p = r]
         IN [h |-> h5, n |-> r, panic |-> ""]

\* func singlerot(c int8, s *Node) *Node
singlerot(h, c, s) ==
    Bind(rotate([h EXCEPT ![s].b = 0], c, s), LAMBDA r :
        IF r.panic # "" THEN r
        ELSE [h |-> [r.h EXCEPT ![r.n].b = 0], n |-> r.n, panic |-> ""])

\* doublerot's switch with the two outer balances always cleared
doublerotBalanceZero(h, c, s, r, p) ==
    [h EXCEPT ![s].b = 0, ![r].b = 0, ![p].b = 0]

\* the switch of doublerot on the balance of the new subtree root p
doublerotBalance(h, c, s, r, p) ==
    LET h1 == IF h[p].b = c THEN [h EXCEPT ![s].b = -c, ![r].b = 0]
              ELSE IF h[p].b = -c THEN [h EXCEPT ![s].b = 0, ![r].b = c]
              ELSE [h EXCEPT ![s].b = 0, ![r].b = 0]
    IN [h1 EXCEPT ![p].b = 0]

\* func doublerot(c int8, s *Node) *Node
doublerot(h, c, s) ==
    LET a == Side(c)
        r == h[s].c[a]
    IN Bind(rotate(h, -c, r), LAMBDA r1 :
        IF r1.panic # "" THEN r1
        ELSE Bind(rotate([r1.h EXCEPT ![s].c[a] = r1.n], c, s), LAMBDA r2 :
            IF r2.panic # "" THEN r2
            ELSE IF r2.h[r].p # r2.n \/ r2.h[s].p # r2.n
            THEN [h |-> r2.h, n |-> Nil, panic |-> "doublerot: bad parents"]
            ELSE [h |-> doublerotBalance(r2.h, c, s, r, r2.n), n |-> r2.n,
                  panic |-> ""]))

\* the result of a rotation routine handed back by a fix-up
Rot(m, r, fix, what) ==
    IF r.panic # ""
    THEN Res([m EXCEPT !.panic = r.panic, !.log = Append(@, what)], Nil, FALSE)
    ELSE Res([m EXCEPT !.h = r.h, !.log = Append(@, what)], r.n, fix)

\* ------------------------------------------------------------- fix-ups
\* insertfix that records the lean and never rotates
insertfixNoRotate(m, c, s) ==
    IF m.h[s].b = 0 THEN Res([m EXCEPT !.h[s].b = c], s, TRUE)
    ELSE IF m.h[s].b = -c THEN Res([m EXCEPT !.h[s].b = 0], s, FALSE)
    ELSE Res(m, s, TRUE)

\* insertfix reporting a grown subtree after its rotations as well
insertfixRotateGrows(m, c, s) ==
    LET h == m.h IN
    IF h[s].b = 0 THEN Res([m EXCEPT !.h[s].b = c], s, TRUE)
    ELSE IF h[s].b = -c THEN Res([m EXCEPT !.h[s].b = 0], s, FALSE)
    ELSE IF h[s].c[Side(c)] = Nil
         THEN Res([m EXCEPT !.panic = "nil dereference"], Nil, FALSE)
    ELSE IF h[h[s].c[Side(c)]].b = c THEN Rot(m, singlerot(h, c, s), TRUE, "singlerot")
    ELSE Rot(m, doublerot(h, c, s), TRUE, "doublerot")

\* func insertfix(c int8, s *Node) (*Node, bool)
insertfix(m, c, s) ==
    LET h == m.h IN
    IF h[s].b = 0 THEN Res([m EXCEPT !.h[s].b = c], s, TRUE)
    ELSE IF h[s].b = -c THEN Res([m EXCEPT !.h[s].b = 0], s, FALSE)
    ELSE IF h[s].c[Side(c)] = Nil
         THEN Res([m EXCEPT !.panic = "nil dereference"], Nil, FALSE)
    ELSE IF h[h[s].c[Side(c)]].b = c THEN Rot(m, singlerot(h, c, s), FALSE, "singlerot")
    ELSE Rot(m, doublerot(h, c, s), FALSE, "doublerot")

\* deletefix reporting a shrunken subtree after the plain rotate as well
deletefixRotateShrinks(m, c, s) ==
    LET h == m.h
        a == Side(c)
    IN
    IF h[s].b = 0 THEN Res([m EXCEPT !.h[s].b = c], s, FALSE)
    ELSE IF h[s].b = -c THEN Res([m EXCEPT !.h[s].b = 0], s, TRUE)
    ELSE IF h[s].c[a] = Nil
         THEN Res([m EXCEPT !.panic = "nil dereference"], Nil, FALSE)
    ELSE IF h[h[s].c[a]].b = 0
         THEN Bind(rotate(h, c, s), LAMBDA r :
                  IF r.panic # "" THEN Rot(m, r, FALSE, "rotate")
                  ELSE Rot(m, [r EXCEPT !.h[r.n].b = -c], TRUE, "rotate"))
    ELSE IF h[h[s].c[a]].b = c THEN Rot(m, singlerot(h, c, s), TRUE, "singlerot")
    ELSE Rot(m, doublerot(h, c, s), TRUE, "doublerot")

\* func deletefix(c int8, s *Node) (*Node, bool)
deletefix(m, c, s) ==
    LET h == m.h
        a == Side(c)
    IN
    IF h[s].b = 0 THEN Res([m EXCEPT !.h[s].b = c], s, FALSE)
    ELSE IF h[s].b = -c THEN Res([m EXCEPT !.h[s].b = 0], s, TRUE)
    ELSE IF h[s].c[a] = Nil
         THEN Res([m EXCEPT !.panic = "nil dereference"], Nil, FALSE)
    ELSE IF h[h[s].c[a]].b = 0
         THEN Bind(rotate(h, c, s), LAMBDA r :
                  IF r.panic # "" THEN Rot(m, r, FALSE, "rotate")
                  ELSE Rot(m, [r EXCEPT !.h[r.n].b = -c], FALSE, "rotate"))
    ELSE IF h[h[s].c[a]].b = c THEN Rot(m, singlerot(h, c, s), TRUE, "singlerot")
    ELSE Rot(m, doublerot(h, c, s), TRUE, "doublerot")

\* ------------------------------------------ src/unnamed/part_001: Insert
\* insert reading delval after the new value has been stored
RECURSIVE insertLateDelval(_, _, _, _)
insertLateDelval(m, val, p, q) ==
    IF q = Nil
    THEN LET m1  == [m EXCEPT !.size = @ + 1]
             new == NewId(m1.h)
         IN Res([m1 EXCEPT !.h = Alloc(m1.h, new, val, p)], new, TRUE)
    ELSE LET c == cmp(val, m.h[q].Val)
             a == Side(c)
         IN
         IF c = 0
         THEN Res([m EXCEPT !.delval = val, !.found = TRUE,
                            !.h[q].Val = val], q, FALSE)
         ELSE Bind(insertLateDelval(m, val, q, m.h[q].c[a]), LAMBDA r :
                  IF Panicked(r.m) THEN r
                  ELSE Bind([r.m EXCEPT !.h[q].c[a] = r.n], LAMBDA m1 :
                          IF r.fix THEN insertfix(m1, c, q)
                          ELSE Res(m1, q, FALSE)))

\* the closure insert(p, q) of Tree.Insert (the same closure in src/avl.go)
RECURSIVE insert(_, _, _, _)
insert(m, val, p, q) ==
    IF q = Nil
    THEN LET m1  == [m EXCEPT !.size = @ + 1]
             new == NewId(m1.h)
         IN Res([m1 EXCEPT !.h = Alloc(m1.h, new, val, p)], new, TRUE)
    ELSE LET c == cmp(val, m.h[q].Val)
             a == Side(c)
         IN
         IF c = 0
         THEN Res([m EXCEPT !.delval = m.h[q].Val, !.found = TRUE,
                            !.h[q].Val = val], q, FALSE)
         ELSE Bind(insert(m, val, q, m.h[q].c[a]), LAMBDA r :
                  IF Panicked(r.m) THEN r
                  ELSE Bind([r.m EXCEPT !.h[q].c[a] = r.n], LAMBDA m1 :
                          IF r.fix THEN insertfix(m1, c, q)
                          ELSE Res(m1, q, FALSE)))

\* func (t *Tree) Insert(val Ordered) (delval Ordered, found bool)
TreeInsert(m, val) ==
    Bind(insert(m, val, Nil, m.root), LAMBDA r :
        IF Panicked(r.m) THEN r.m ELSE [r.m EXCEPT !.root = r.n])

\* ------------------------------------------ src/unnamed/part_001: Delete
\* func deletemin(q *Node, min *Ordered) (*Node, bool)
RECURSIVE deletemin(_, _)
deletemin(m, q) ==
    IF m.h[q].c[0] = Nil
    THEN LET m1 == [m EXCEPT !.min = m.h[q].Val]
             m2 == IF m1.h[q].c[1] # Nil
                   THEN [m1 EXCEPT !.h[m1.h[q].c[1]].p = m1.h[q].p]
                   ELSE m1
         IN Res(m2, m2.h[q].c[1], TRUE)
    ELSE Bind(deletemin(m, m.h[q].c[0]), LAMBDA r :
             IF Panicked(r.m) THEN r
             ELSE Bind([r.m EXCEPT !.h[q].c[0] = r.n], LAMBDA m1 :
                     IF r.fix THEN deletefix(m1, 1, q)
                     ELSE Res(m1, q, FALSE)))

\* the found branch reading delval after the minimum has been copied in
deletefoundLateDelval(m, q) ==
    IF m.h[q].c[1] = Nil
    THEN LET m1 == IF m.h[q].c[0] # Nil
                   THEN [m EXCEPT !.h[m.h[q].c[0]].p = m.h[q].p]
                   ELSE m
         IN Res(m1, m1.h[q].c[0], TRUE)
    ELSE Bind(deletemin(m, m.h[q].c[1]), LAMBDA r :
             IF Panicked(r.m) THEN r
             ELSE Bind([r.m EXCEPT !.h[q].c[1] = r.n, !.h[q].Val = r.m.min,
                                   !.delval = r.m.min],
                       LAMBDA m1 :
                     IF r.fix THEN deletefix(m1, -1, q)
                     ELSE Res(m1, q, FALSE)))

\* the found branch handing back q itself when q has no side-1 child
deletefoundKeepsNode(m, q) ==
    IF m.h[q].c[1] = Nil
    THEN Res(m, q, TRUE)
    ELSE Bind(deletemin(m, m.h[q].c[1]), LAMBDA r :
             IF Panicked(r.m) THEN r
             ELSE Bind([r.m EXCEPT !.h[q].c[1] = r.n, !.h[q].Val = r.m.min],
                       LAMBDA m1 :
                     IF r.fix THEN deletefix(m1, -1, q)
                     ELSE Res(m1, q, FALSE)))

\* the found branch keeping quiet about the node it splices out
deletefoundQuiet(m, q) ==
    IF m.h[q].c[1] = Nil
    THEN LET m1 == IF m.h[q].c[0] # Nil
                   THEN [m EXCEPT !.h[m.h[q].c[0]].p = m.h[q].p]
                   ELSE m
         IN Res(m1, m1.h[q].c[0], FALSE)
    ELSE Bind(deletemin(m, m.h[q].c[1]), LAMBDA r :
             IF Panicked(r.m) THEN r
             ELSE Bind([r.m EXCEPT !.h[q].c[1] = r.n, !.h[q].Val = r.m.min],
                       LAMBDA m1 :
                     IF r.fix THEN deletefix(m1, -1, q)
                     ELSE Res(m1, q, FALSE)))

\* the found branch of delete after its bookkeeping: the node is spliced
\* out, or takes the minimum of its side-1 subtree
deletefound(m, q) ==
    IF m.h[q].c[1] = Nil
    THEN LET m1 == IF m.h[q].c[0] # Nil
                   THEN [m EXCEPT !.h[m.h[q].c[0]].p = m.h[q].p]
                   ELSE m
         IN Res(m1, m1.h[q].c[0], TRUE)
    ELSE Bind(deletemin(m, m.h[q].c[1]), LAMBDA r :
             IF Panicked(r.m) THEN r
             ELSE Bind([r.m EXCEPT !.h[q].c[1] = r.n, !.h[q].Val = r.m.min],
                       LAMBDA m1 :
                     IF r.fix THEN deletefix(m1, -1, q)
                     ELSE Res(m1, q, FALSE)))

\* delete reporting a shrunken subtree when it runs off the tree
RECURSIVE deleteNilShrinks(_, _, _)
deleteNilShrinks(m, val, q) ==
    IF q = Nil THEN Res(m, Nil, TRUE)
    ELSE LET c == cmp(val, m.h[q].Val)
             a == Side(c)
         IN
         IF c = 0
         THEN Bind([m EXCEPT !.size = @ - 1, !.delval = m.h[q].Val,
                             !.found = TRUE], LAMBDA m1 : deletefound(m1, q))
         ELSE Bind(deleteNilShrinks(m, val, m.h[q].c[a]), LAMBDA r :
                  IF Panicked(r.m) THEN r
                  ELSE Bind([r.m EXCEPT !.h[q].c[a] = r.n], LAMBDA m1 :
                          IF r.fix THEN deletefix(m1, -c, q)
                          ELSE Res(m1, q, FALSE)))

\* delete without t.size--
RECURSIVE deleteKeepsSize(_, _, _)
deleteKeepsSize(m, val, q) ==
    IF q = Nil THEN Res(m, Nil, FALSE)
    ELSE LET c == cmp(val, m.h[q].Val)
             a == Side(c)
         IN
         IF c = 0
         THEN Bind([m EXCEPT !.delval = m.h[q].Val, !.found = TRUE],
                   LAMBDA m1 : deletefound(m1, q))
         ELSE Bind(deleteKeepsSize(m, val, m.h[q].c[a]), LAMBDA r :
                  IF Panicked(r.m) THEN r
                  ELSE Bind([r.m EXCEPT !.h[q].c[a] = r.n], LAMBDA m1 :
                          IF r.fix THEN deletefix(m1, -c, q)
                          ELSE Res(m1, q, FALSE)))

\* the closure delete(q) of Tree.Delete
RECURSIVE delete(_, _, _)
delete(m, val, q) ==
    IF q = Nil THEN Res(m, Nil, FALSE)
    ELSE LET c == cmp(val, m.h[q].Val)
             a == Side(c)
         IN
         IF c = 0
         THEN Bind([m EXCEPT !.size = @ - 1, !.delval = m.h[q].Val,
                             !.found = TRUE], LAMBDA m1 : deletefound(m1, q))
         ELSE Bind(delete(m, val, m.h[q].c[a]), LAMBDA r :
                  IF Panicked(r.m) THEN r
                  ELSE Bind([r.m EXCEPT !.h[q].c[a] = r.n], LAMBDA m1 :
                          IF r.fix THEN deletefix(m1, -c, q)
                          ELSE Res(m1, q, FALSE)))

\* func (t *Tree) Delete(val Ordered) (delval Ordered, found bool)
TreeDelete(m, val) ==
    Bind(delete(m, val, m.root), LAMBDA r :
        IF Panicked(r.m) THEN r.m ELSE [r.m EXCEPT !.root = r.n])

\* ----------------------------------------------------- src/avl.go: Delete
\* func delete(q *Node, val Ordered, del *bool) (*Node, bool)
RECURSIVE avldelete(_, _, _)
avldelete(m, val, q) ==
    IF q = Nil THEN Res(m, Nil, FALSE)
    ELSE LET c == cmp(val, m.h[q].Val)
             a == Side(c)
         IN
         IF c = 0
         THEN Bind([m EXCEPT !.found = TRUE], LAMBDA m1 : deletefound(m1, q))
         ELSE Bind(avldelete(m, val, m.h[q].c[a]), LAMBDA r :
                  IF Panicked(r.m) THEN r
                  ELSE Bind([r.m EXCEPT !.h[q].c[a] = r.n], LAMBDA m1 :
                          IF r.fix THEN deletefix(m1, -c, q)
                          ELSE Res(m1, q, FALSE)))

\* func (t *Tree) Delete(val Ordered) bool
AvlDelete(m, val) ==
    Bind(avldelete(m, val, m.root), LAMBDA r :
        IF Panicked(r.m) THEN r.m ELSE [r.m EXCEPT !.root = r.n])

\* --------------------------------------------------------- src/oldavl.go
\* a **Node: <<Nil, 0>> is &t.root, <<n, a>> is &n.c[a]
RootSlot == <<Nil, 0>>

Load(m, qp) == IF qp[1] = Nil THEN m.root ELSE m.h[qp[1]].c[qp[2]]

Store(m, qp, n) ==
    IF qp[1] = Nil THEN [m EXCEPT !.root = n]
    ELSE [m EXCEPT !.h[qp[1]].c[qp[2]] = n]

\* the switch that turns the comparison result into -1 or 1
Sign(c) == IF c < 0 THEN -1 ELSE IF c > 0 THEN 1 ELSE c

\* a rotation's result stored through the slot
RotSlot(m, t, r, fix, what) ==
    IF r.panic # ""
    THEN Res([m EXCEPT !.panic = r.panic, !.log = Append(@, what)], Nil, FALSE)
    ELSE Res(Store([m EXCEPT !.h = r.h, !.log = Append(@, what)], t, r.n),
             Nil, fix)

\* insertFix rotating without *t = s
insertFixNoStore(m, c, t) ==
    LET s == Load(m, t)
        h == m.h
    IN
    IF h[s].b = 0 THEN Res([m EXCEPT !.h[s].b = c], Nil, TRUE)
    ELSE IF h[s].b = -c THEN Res([m EXCEPT !.h[s].b = 0], Nil, FALSE)
    ELSE IF h[s].c[Side(c)] = Nil
         THEN Res([m EXCEPT !.panic = "nil dereference"], Nil, FALSE)
    ELSE IF h[h[s].c[Side(c)]].b = c
         THEN Rot(m, singlerot(h, c, s), FALSE, "singlerot")
    ELSE Rot(m, doublerot(h, c, s), FALSE, "doublerot")

\* func insertFix(c int8, t **Node) bool
insertFix(m, c, t) ==
    LET s == Load(m, t)
        h == m.h
    IN
    IF h[s].b = 0 THEN Res([m EXCEPT !.h[s].b = c], Nil, TRUE)
    ELSE IF h[s].b = -c THEN Res([m EXCEPT !.h[s].b = 0], Nil, FALSE)
    ELSE IF h[s].c[Side(c)] = Nil
         THEN Res([m EXCEPT !.panic = "nil dereference"], Nil, FALSE)
    ELSE IF h[h[s].c[Side(c)]].b = c
         THEN RotSlot(m, t, singlerot(h, c, s), FALSE, "singlerot")
    ELSE RotSlot(m, t, doublerot(h, c, s), FALSE, "doublerot")

\* func delFix(c int8, t **Node) bool
delFix(m, c, t) ==
    LET s == Load(m, t)
        h == m.h
        a == Side(c)
    IN
    IF h[s].b = 0 THEN Res([m EXCEPT !.h[s].b = c], Nil, FALSE)
    ELSE IF h[s].b = -c THEN Res([m EXCEPT !.h[s].b = 0], Nil, TRUE)
    ELSE IF h[s].c[a] = Nil
         THEN Res([m EXCEPT !.panic = "nil dereference"], Nil, FALSE)
    ELSE IF h[h[s].c[a]].b = 0
         THEN Bind(rotate(h, c, s), LAMBDA r :
                  IF r.panic # "" THEN RotSlot(m, t, r, FALSE, "rotate")
                  ELSE RotSlot(m, t, [r EXCEPT !.h[r.n].b = -c], FALSE,
                               "rotate"))
    ELSE IF h[h[s].c[a]].b = c
         THEN RotSlot(m, t, singlerot(h, c, s), TRUE, "singlerot")
    ELSE RotSlot(m, t, doublerot(h, c, s), TRUE, "doublerot")

\* oldavl's insert counting the replacement of an equal element as well
RECURSIVE oldinsertCountsAll(_, _, _, _)
oldinsertCountsAll(m, val, p, qp) ==
    LET q == Load(m, qp) IN
    IF q = Nil
    THEN LET m1  == [m EXCEPT !.size = @ + 1]
             new == NewId(m1.h)
         IN Res(Store([m1 EXCEPT !.h = Alloc(m1.h, new, val, p)], qp, new),
                Nil, TRUE)
    ELSE LET c0 == oldcmp(val, m.h[q].Val)
             c  == Sign(c0)
             a  == Side(c)
         IN
         IF c0 = 0
         THEN Res([m EXCEPT !.h[q].Val = val, !.size = @ + 1], Nil, FALSE)
         ELSE Bind(oldinsertCountsAll(m, val, q, <<q, a>>), LAMBDA r :
                  IF Panicked(r.m) THEN r
                  ELSE IF r.fix THEN insertFix(r.m, c, qp)
                  ELSE Res(r.m, Nil, FALSE))

\* oldavl's insert leaving the element it finds in place
RECURSIVE oldinsertKeepsOld(_, _, _, _)
oldinsertKeepsOld(m, val, p, qp) ==
    LET q == Load(m, qp) IN
    IF q = Nil
    THEN LET m1  == [m EXCEPT !.size = @ + 1]
             new == NewId(m1.h)
         IN Res(Store([m1 EXCEPT !.h = Alloc(m1.h, new, val, p)], qp, new),
                Nil, TRUE)
    ELSE LET c0 == oldcmp(val, m.h[q].Val)
             c  == Sign(c0)
             a  == Side(c)
         IN
         IF c0 = 0 THEN Res(m, Nil, FALSE)
         ELSE Bind(oldinsertKeepsOld(m, val, q, <<q, a>>), LAMBDA r :
                  IF Panicked(r.m) THEN r
                  ELSE IF r.fix THEN insertFix(r.m, c, qp)
                  ELSE Res(r.m, Nil, FALSE))

\* func (t *Tree) insert(val interface{}, p *Node, qp **Node) bool
RECURSIVE oldinsert(_, _, _, _)
oldinsert(m, val, p, qp) ==
    LET q == Load(m, qp) IN
    IF q = Nil
    THEN LET m1  == [m EXCEPT !.size = @ + 1]
             new == NewId(m1.h)
         IN Res(Store([m1 EXCEPT !.h = Alloc(m1.h, new, val, p)], qp, new),
                Nil, TRUE)
    ELSE LET c0 == oldcmp(val, m.h[q].Val)
             c  == Sign(c0)
             a  == Side(c)
         IN
         IF c0 = 0 THEN Res([m EXCEPT !.h[q].Val = val], Nil, FALSE)
         ELSE Bind(oldinsert(m, val, q, <<q, a>>), LAMBDA r :
                  IF Panicked(r.m) THEN r
                  ELSE IF r.fix THEN insertFix(r.m, c, qp)
                  ELSE Res(r.m, Nil, FALSE))

\* func delmin(qp **Node, min *interface{}) bool; min is &target.Val
RECURSIVE delmin(_, _, _)
delmin(m, qp, target) ==
    LET q == Load(m, qp) IN
    IF m.h[q].c[0] = Nil
    THEN LET m1 == [m EXCEPT !.h[target].Val = m.h[q].Val]
             m2 == IF m1.h[q].c[1] # Nil
                   THEN [m1 EXCEPT !.h[m1.h[q].c[1]].p = m1.h[q].p]
                   ELSE m1
         IN Res(Store(m2, qp, m2.h[q].c[1]), Nil, TRUE)
    ELSE Bind(delmin(m, <<q, 0>>, target), LAMBDA r :
             IF Panicked(r.m) THEN r
             ELSE IF r.fix THEN delFix(r.m, 1, qp)
             ELSE Res(r.m, Nil, FALSE))

\* the found branch of del handing delmin the Val of q's side-1 child
\* to fill instead of q's own
delfoundMinAside(m, qp, q) ==
    IF m.h[q].c[1] = Nil
    THEN LET m1 == IF m.h[q].c[0] # Nil
                   THEN [m EXCEPT !.h[m.h[q].c[0]].p = m.h[q].p]
                   ELSE m
         IN Res(Store(m1, qp, m1.h[q].c[0]), Nil, TRUE)
    ELSE Bind(delmin(m, <<q, 1>>, m.h[q].c[1]), LAMBDA r :
             IF Panicked(r.m) THEN r
             ELSE IF r.fix THEN delFix(r.m, -1, qp)
             ELSE Res(r.m, Nil, FALSE))

\* the found branch of del after t.size--
delfound(m, qp, q) ==
    IF m.h[q].c[1] = Nil
    THEN LET m1 == IF m.h[q].c[0] # Nil
                   THEN [m EXCEPT !.h[m.h[q].c[0]].p = m.h[q].p]
                   ELSE m
         IN Res(Store(m1, qp, m1.h[q].c[0]), Nil, TRUE)
    ELSE Bind(delmin(m, <<q, 1>>, q), LAMBDA r :
             IF Panicked(r.m) THEN r
             ELSE IF r.fix THEN delFix(r.m, -1, qp)
             ELSE Res(r.m, Nil, FALSE))

\* func (t *Tree) del(val interface{}, qp **Node) bool
RECURSIVE del(_, _, _)
del(m, val, qp) ==
    LET q == Load(m, qp) IN
    IF q = Nil THEN Res(m, Nil, FALSE)
    ELSE LET c0 == oldcmp(val, m.h[q].Val)
             c  == Sign(c0)
             a  == Side(c)
         IN
         IF c0 = 0
         THEN Bind([m EXCEPT !.size = @ - 1], LAMBDA m1 : delfound(m1, qp, q))
         ELSE Bind(del(m, val, <<q, a>>), LAMBDA r :
                  IF Panicked(r.m) THEN r
                  ELSE IF r.fix THEN delFix(r.m, -c, qp)
                  ELSE Res(r.m, Nil, FALSE))

\* func (t *Tree) Insert(val interface{})
OldInsert(m, val) == oldinsert(m, val, Nil, RootSlot).m

\* func (t *Tree) Delete(val interface{})
OldDelete(m, val) == del(m, val, RootSlot).m

\* ------------------------------------------------------------ read side
\* Lookup with the two directions exchanged
RECURSIVE lookupMirrored(_, _, _)
lookupMirrored(h, n, val) ==
    IF n = Nil THEN [val |-> NoVal, ok |-> FALSE]
    ELSE LET c == cmp(val, h[n].Val) IN
         IF c = -1 THEN lookupMirrored(h, h[n].c[1], val)
         ELSE IF c = 0 THEN [val |-> h[n].Val, ok |-> TRUE]
         ELSE lookupMirrored(h, h[n].c[0], val)

\* func (t *Tree) Lookup(val Ordered) (Ordered, bool)   (part_001)
RECURSIVE lookup(_, _, _)
lookup(h, n, val) ==
    IF n = Nil THEN [val |-> NoVal, ok |-> FALSE]
    ELSE LET c == cmp(val, h[n].Val) IN
         IF c = -1 THEN lookup(h, h[n].c[0], val)
         ELSE IF c = 0 THEN [val |-> h[n].Val, ok |-> TRUE]
         ELSE lookup(h, h[n].c[1], val)

Lookup(t, val) == lookup(t.h, t.root, val)

\* func (t *Tree) Lookup(val interface{}) (match interface{}, ok bool)
RECURSIVE oldlookup(_, _, _)
oldlookup(h, n, val) ==
    IF n = Nil THEN [val |-> NoVal, ok |-> FALSE]
    ELSE LET c == oldcmp(val, h[n].Val) IN
         IF c < 0 THEN oldlookup(h, h[n].c[0], val)
         ELSE IF c > 0 THEN oldlookup(h, h[n].c[1], val)
         ELSE [val |-> h[n].Val, ok |-> TRUE]

OldLookup(t, val) == oldlookup(t.h, t.root, val)

\* func (t *Tree) Size() int
Size(t) == t.size

\* the loop of bottom cut off after one step
descendOnce(h, n, d) == IF h[n].c[d] = Nil THEN n ELSE h[n].c[d]

\* the loop of bottom and of walk1: follow side d while there is a child
RECURSIVE descend(_, _, _)
descend(h, n, d) == IF h[n].c[d] = Nil THEN n ELSE descend(h, h[n].c[d], d)

\* func (t *Tree) bottom(d int) *Node
bottom(t, d) == IF t.root = Nil THEN Nil ELSE descend(t.h, t.root, d)

\* func (t *Tree) Min() *Node, func (t *Tree) Max() *Node
Min(t) == bottom(t, 0)
Max(t) == bottom(t, 1)

\* walk1 handing back the parent without climbing
climbOnce(h, n, p, a) == p

\* the climbing loop of walk1: for p != nil && p.c[a] == n
RECURSIVE climb(_, _, _, _)
climb(h, n, p, a) ==
    IF p # Nil /\ h[p].c[a] = n THEN climb(h, p, h[p].p, a) ELSE p

\* func (n *Node) walk1(a int) *Node
walk1(h, n, a) ==
    IF n = Nil THEN Nil
    ELSE IF h[n].c[a] # Nil THEN descend(h, h[n].c[a], 1 - a)
    ELSE climb(h, n, h[n].p, a)

\* func (n *Node) Prev() *Node, func (n *Node) Next() *Node
NodePrev(h, n) == walk1(h, n, 0)
NodeNext(h, n) == walk1(h, n, 1)

\* for n := start; n != nil; n = n.walk1(a): the nodes visited, cut off
\* after k of them
RECURSIVE Walk(_, _, _, _)
Walk(h, n, a, k) ==
    IF n = Nil \/ k = 0 THEN <<>>
    ELSE <<n>> \o Walk(h, walk1(h, n, a), a, k - 1)

\* for n := tree.Min(); n != nil; n = n.Next()  and its mirror image
WalkUp(t) == Walk(t.h, Min(t), 1, Cardinality(DOMAIN t.h) + 1)
WalkDown(t) == Walk(t.h, Max(t), 0, Cardinality(DOMAIN t.h) + 1)

\* func depth(n *Node) int   (src/avl_test.go)
RECURSIVE depth(_, _)
depth(h, n) ==
    IF n = Nil THEN 0
    ELSE LET ld == depth(h, h[n].c[0])
             rd == depth(h, h[n].c[1])
         IN IF ld >= rd THEN ld + 1 ELSE rd + 1

\* the nodes of the subtree at n, by child links
RECURSIVE Subtree(_, _)
Subtree(h, n) ==
    IF n = Nil THEN {}
    ELSE {n} \cup Subtree(h, h[n].c[0]) \cup Subtree(h, h[n].c[1])

Nodes(t) == Subtree(t.h, t.root)

\* ---------------------------------------------------------- the Go heap
\* nodes the program can still reach from the Tree, by any pointer field
RECURSIVE Live(_, _)
Live(h, S) ==
    LET T == S \cup {x \in DOMAIN h : \E n \in S :
                        x = h[n].c[0] \/ x = h[n].c[1] \/ x = h[n].p}
    IN IF T = S THEN S ELSE Live(h, T)

RECURSIVE Preorder(_, _)
Preorder(h, n) ==
    IF n = Nil THEN <<>>
    ELSE <<n>> \o Preorder(h, h[n].c[0]) \o Preorder(h, h[n].c[1])

RECURSIVE Sorted(_)
Sorted(S) ==
    IF S = {} THEN <<>>
    ELSE LET x == CHOOSE x \in S : \A y \in S : x <= y
         IN <<x>> \o Sorted(S \ {x})

\* Go addresses are opaque: a program sees pointer equality and nothing
\* else of an address.  After each call the unreachable nodes are freed
\* and the live ones are kept at addresses 1..n in pre-order, so that two
\* heaps that differ only in the addresses the allocator chose are one
\* state.
Compact(m) ==
    LET pre   == Preorder(m.h, m.root)
        live  == Live(m.h, {m.root} \cap DOMAIN m.h)
        rest  == live \ {pre[i] : i \in 1..Len(pre)}
        order == pre \o Sorted(rest)
        At(x) == IF x = Nil THEN Nil
                 ELSE CHOOSE i \in 1..Len(order) : order[i] = x
    IN [h    |-> [i \in 1..Len(order) |->
                    [Val |-> m.h[order[i]].Val,
                     c   |-> [j \in 0..1 |-> At(m.h[order[i]].c[j])],
                     p   |-> At(m.h[order[i]].p),
                     b   |-> m.h[order[i]].b]],
        root |-> At(m.root),
        size |-> m.size]

\* ------------------------------------------------------------- the state
\* new(Tree), oldavl.NewTree(cmp)
EmptyTree == [h |-> [n \in {} |-> Node(NoVal, Nil)], root |-> Nil, size |-> 0]

\* what the caller of part_001 or avl.go sees of a call
Ret(op, arg, m) ==
    [op |-> op, arg |-> arg, val |-> m.delval, found |-> m.found,
     panic |-> m.panic, log |-> m.log]

Init ==
    /\ tree = EmptyTree
    /\ old = EmptyTree
    /\ ret = [op |-> "new", arg |-> NoVal, val |-> NoVal, found |-> FALSE,
              panic |-> "", log |-> <<>>]
    /\ vals = [k \in Keys |-> NoVal]
    /\ ins = {}
    /\ dels = {}
    /\ gone = {}

\* a panic ends the program
Running == ret.panic = ""

\* a panic of either tree
Panic(m, o) == IF m.panic # "" THEN m.panic ELSE o.panic

\* the tests' map: vals[r] = true after tree.Insert(r), delete(vals, r)
\* after tree.Delete(r)
NoteInsert(v) == vals' = [vals EXCEPT ![v[1]] = v]
NoteDelete(v) == vals' = [vals EXCEPT ![v[1]] = NoVal]

\* Insert(v) on the avl.Tree of part_001 and on the oldavl.Tree
Insert(v) ==
    /\ Running
    /\ \E m \in {TreeInsert(Machine(tree), v)},
          o \in {OldInsert(Machine(old), v)} :
          /\ tree' = Compact(m)
          /\ old' = Compact(o)
          /\ ret' = [Ret("Insert", v, m) EXCEPT !.panic = Panic(m, o)]
    /\ NoteInsert(v)
    /\ UNCHANGED <<ins, dels, gone>>

\* Delete(v) on the avl.Tree of part_001 and on the oldavl.Tree
Delete(v) ==
    /\ Running
    /\ \E m \in {TreeDelete(Machine(tree), v)},
          o \in {OldDelete(Machine(old), v)} :
          /\ tree' = Compact(m)
          /\ old' = Compact(o)
          /\ ret' = [Ret("Delete", v, m) EXCEPT !.panic = Panic(m, o)]
    /\ NoteDelete(v)
    /\ UNCHANGED <<ins, dels, gone>>

\* part_001 with the counting of TestLookupsAfterDeletions around it
InsertCounted(v) ==
    /\ Running
    /\ \E m \in {TreeInsert(Machine(tree), v)} :
          tree' = Compact(m) /\ ret' = Ret("Insert", v, m)
    /\ NoteInsert(v)
    /\ ins' = ins \cup {v[1]}
    /\ gone' = gone \ {v[1]}
    /\ UNCHANGED <<old, dels>>

DeleteCounted(v) ==
    /\ Running
    /\ \E m \in {TreeDelete(Machine(tree), v)} :
          /\ tree' = Compact(m)
          /\ ret' = Ret("Delete", v, m)
          /\ dels' = IF m.found THEN dels \cup {v[1]} ELSE dels
          /\ gone' = IF m.found THEN gone \cup {v[1]} ELSE gone
    /\ NoteDelete(v)
    /\ UNCHANGED <<old, ins>>

\* src/avl.go: tree.Insert(v)
InsertAvl(v) ==
    /\ Running
    /\ tree.size < MaxSize
    /\ \E m \in {TreeInsert(Machine(tree), v)} :
          tree' = Compact(m) /\ ret' = Ret("Insert", v, m)
    /\ NoteInsert(v)
    /\ UNCHANGED <<old, ins, dels, gone>>

\* src/avl.go: tree.Delete(v), which returns the bool alone
DeleteAvl(v) ==
    /\ Running
    /\ \E m \in {AvlDelete(Machine(tree), v)} :
          /\ tree' = Compact(m)
          /\ ret' = [Ret("Delete", v, m) EXCEPT !.val = NoVal]
    /\ NoteDelete(v)
    /\ UNCHANGED <<old, ins, dels, gone>>

\* part_001 and oldavl.go side by side, on Int elements
Next ==
    \/ \E v \in Ints : Insert(v)
    \/ \E v \in Ints : Delete(v)

Spec == Init /\ [][Next]_vars

\* part_001 and oldavl.go side by side, on IntString elements
NextKV ==
    \/ \E v \in IntStrings : Insert(v)
    \/ \E v \in IntStrings : Delete(v)

SpecKV == Init /\ [][NextKV]_vars

\* part_001 with the tests' counting
NextCount ==
    \/ \E v \in SmallInts : InsertCounted(v)
    \/ \E v \in SmallInts : DeleteCounted(v)

SpecCount == Init /\ [][NextCount]_vars

\* avl.go
NextAvl ==
    \/ \E v \in SmallInts : InsertAvl(v)
    \/ \E v \in SmallInts : DeleteAvl(v)

SpecAvl == Init /\ [][NextAvl]_vars

WellFormed(t) ==
    /\ t.root \in DOMAIN t.h \cup {Nil}
    /\ t.size \in Int
    /\ \A n \in DOMAIN t.h :
          /\ t.h[n].b \in -128..127
          /\ t.h[n].p \in DOMAIN t.h \cup {Nil}
          /\ \A i \in 0..1 : t.h[n].c[i] \in DOMAIN t.h \cup {Nil}

TypeOK == WellFormed(tree) /\ WellFormed(old)

\* ---------------------------------------------------------------- C1
\* checkOrdered: the elements along a walk, each strictly before the next
Ascending(h, q) ==
    \A i \in 1..(Len(q) - 1) : Less(h[q[i]].Val, h[q[i + 1]].Val)

Descending(h, q) ==
    \A i \in 1..(Len(q) - 1) : Less(h[q[i + 1]].Val, h[q[i]].Val)

\* every value under c[0] is before n.Val, every value under c[1] after it
SearchTree(t) ==
    \A n \in Nodes(t) :
        /\ \A x \in Subtree(t.h, t.h[n].c[0]) : Less(t.h[x].Val, t.h[n].Val)
        /\ \A x \in Subtree(t.h, t.h[n].c[1]) : Less(t.h[n].Val, t.h[x].Val)

Ordered(t) ==
    /\ Ascending(t.h, WalkUp(t))
    /\ Descending(t.h, WalkDown(t))
    /\ SearchTree(t)

\* C1: after any sequence of Insert and Delete calls the walk Min, Next,
\* Next, ... visits strictly increasing values, the walk Max, Prev, Prev,
\* ... strictly decreasing ones, and every node has only smaller values
\* under c[0] and only greater ones under c[1].
C1_Ordered == Ordered(tree) /\ Ordered(old)

\* a found Delete that rebalanced has left a tree of five or more nodes
\* for the walks to cross
C1_Witness ==
    /\ ret.op = "Delete" /\ ret.found /\ ret.log # <<>>
    /\ Len(WalkUp(tree)) >= 5
    /\ Len(WalkDown(old)) >= 5

\* ---------------------------------------------------------------- C2
\* checkBalance: b is depth(c[1]) - depth(c[0])
Balanced(t) ==
    \A n \in Nodes(t) :
        /\ t.h[n].b = depth(t.h, t.h[n].c[1]) - depth(t.h, t.h[n].c[0])
        /\ t.h[n].b \in {-1, 0, 1}

\* C2: after every completed Insert or Delete, every node reachable from
\* the root has b = height(c[1]) - height(c[0]), and b is -1, 0 or 1.
C2_Balanced == Balanced(tree) /\ Balanced(old)

\* a Delete whose fix-up went through a double rotation, on a tree that
\* still has nodes out of balance by one
C2_Witness ==
    /\ ret.op = "Delete" /\ ret.found
    /\ \E i \in 1..Len(ret.log) : ret.log[i] = "doublerot"
    /\ \E n \in Nodes(tree) : tree.h[n].b # 0
    /\ \E n \in Nodes(old) : old.h[n].b # 0

\* ---------------------------------------------------------------- C3
SizeIsCount(t) ==
    /\ Size(t) = Cardinality(Nodes(t))
    /\ Len(WalkUp(t)) = Size(t)
    /\ Len(WalkDown(t)) = Size(t)

\* C3: after any sequence of Insert and Delete calls Size() is the number
\* of nodes reachable from the root, and the walk up from Min and the walk
\* down from Max each end after exactly Size() nodes.
C3_SizeIsCount == SizeIsCount(old) /\ SizeIsCount(tree)

\* the size has gone up and come down again: a found Delete that leaves
\* five or more nodes in both trees
C3_Witness ==
    /\ ret.op = "Delete" /\ ret.found
    /\ Size(old) >= 5 /\ Size(tree) >= 5

\* ---------------------------------------------------------------- C4
\* the tree a call leaves, before the caller looks at it
After(m) == [h |-> m.h, root |-> m.root, size |-> m.size]

\* C4: in src/avl.go a Delete that returns true lowers Size() by one, a
\* Delete that returns false leaves it alone, and after a Delete Size() is
\* the number of nodes reachable from the root.
C4_AvlDeleteSize ==
    [][ret'.op = "Delete" =>
          /\ Size(tree)' = IF ret'.found THEN Size(tree) - 1 ELSE Size(tree)
          /\ Size(tree)' = Cardinality(Nodes(tree))']_vars

\* ---------------------------------------------------------------- C5
\* the reference set of the tests: the keys vals holds an element for
InRef(v) == vals[v[1]] # NoVal

\* C5: after any sequence of Insert and Delete calls, Lookup(v) reports
\* found exactly for the values v of the reference set, and the element it
\* then returns compares equal to v.
C5_Lookup ==
    \A v \in IntStrings :
        /\ \A r \in {Lookup(tree, v)} :
              /\ r.ok <=> InRef(v)
              /\ r.ok => cmp(r.val, v) = 0
        /\ \A r \in {OldLookup(old, v)} :
              /\ r.ok <=> InRef(v)
              /\ r.ok => oldcmp(r.val, v) = 0

\* after a found Delete some value is found through an element other than
\* the one asked for, below the root, and some value is absent
C5_Witness ==
    /\ ret.op = "Delete" /\ ret.found
    /\ \E v \in IntStrings :
          /\ Lookup(tree, v).ok /\ Lookup(tree, v).val # v
          /\ tree.h[tree.root].Val[1] # v[1]
    /\ \E v \in IntStrings : ~OldLookup(old, v).ok

\* ---------------------------------------------------------------- C6
\* C6: Insert(v) reports replaced exactly when an element equal to v was
\* stored before the call; it then returns that element and leaves Size()
\* alone; otherwise it returns no element and Size() grows by one.
C6_InsertReturn ==
    \A v \in IntStrings :
        \A m \in {TreeInsert(Machine(tree), v)} :
            /\ m.found <=> InRef(v)
            /\ m.found => m.delval = vals[v[1]] /\ m.size = Size(tree)
            /\ ~m.found => m.delval = NoVal /\ m.size = Size(tree) + 1

\* an Insert has replaced an element by a different one that compares
\* equal, in a tree of three or more nodes
C6_Witness ==
    /\ ret.op = "Insert" /\ ret.found
    /\ ret.val # ret.arg /\ ret.val[1] = ret.arg[1]
    /\ Size(tree) >= 3

\* ---------------------------------------------------------------- C7
\* C7: Delete(v) on a tree that stores an element e equal to v returns
\* (e, true), e being the element stored before the call; afterwards
\* Lookup(v) is absent and every other stored value is still found.
C7_DeleteReturn ==
    \A v \in IntStrings :
        InRef(v) =>
            \A m \in {TreeDelete(Machine(tree), v)} :
                /\ m.found /\ m.delval = vals[v[1]]
                /\ ~Lookup(After(m), v).ok
                /\ \A k \in SmallKeys \ {v[1]} :
                      vals[k] # NoVal =>
                          /\ Lookup(After(m), vals[k]).ok
                          /\ Lookup(After(m), vals[k]).val = vals[k]

\* a Delete has returned an element other than its argument, and the node
\* that held it now holds another, greater element or has left the tree
C7_Witness ==
    /\ ret.op = "Delete" /\ ret.found
    /\ ret.val # ret.arg /\ ret.val[1] = ret.arg[1]
    /\ ret.log # <<>>
    /\ Size(tree) >= 2

\* ---------------------------------------------------------------- C8
SameTree(m, t) == m.h = t.h /\ m.root = t.root /\ m.size = t.size

\* C8: Delete(v) on a tree that stores no element equal to v, the empty
\* tree included, reports not found, does not panic and leaves the root,
\* every link, every balance factor, every value and Size() as they were.
C8_DeleteAbsent ==
    \A v \in Ints :
        ~InRef(v) =>
            /\ \A m \in {TreeDelete(Machine(tree), v)} :
                  ~m.found /\ m.panic = "" /\ SameTree(m, tree)
            /\ \A o \in {OldDelete(Machine(old), v)} :
                  o.panic = "" /\ SameTree(o, old)

\* a Delete has missed in a tree of three levels, and another in the
\* empty tree
C8_Witness ==
    /\ ret.op = "Delete" /\ ~ret.found /\ ret.panic = ""
    /\ depth(tree.h, tree.root) >= 3 /\ depth(old.h, old.root) >= 3

\* ---------------------------------------------------------------- C9
\* C9 as stated: Size() is the number of distinct values ever passed to
\* Insert minus the number of distinct values some Delete reported found.
C9_AsStated == Size(tree) = Cardinality(ins) - Cardinality(dels)

\* C9: Size() is the number of distinct values ever passed to Insert minus
\* the number of those a Delete reported found and no later Insert has
\* put back.
C9_SizeByCount == Size(tree) = Cardinality(ins) - Cardinality(gone)

\* some value was deleted and inserted again, another is deleted now
C9_Witness ==
    /\ dels \ gone # {}
    /\ gone # {}
    /\ Size(tree) >= 2

\* --------------------------------------------------------------- C10
Empty(t) ==
    /\ Size(t) = 0
    /\ t.root = Nil
    /\ Min(t) = Nil
    /\ Max(t) = Nil

\* C10: once every inserted value has been deleted again, in whatever
\* orders, Size() is 0, the root is absent and Min() and Max() are nil.
C10_RoundTrip ==
    (\A k \in Keys : vals[k] = NoVal) => Empty(tree) /\ Empty(old)

\* the last of the values has just been deleted
C10_Witness ==
    /\ ret.op = "Delete" /\ ret.found
    /\ \A k \in Keys : vals[k] = NoVal

\* --------------------------------------------------------------- C11
\* the node holding the smallest stored value greater than n.Val
Successor(t, n) ==
    LET S == {x \in Nodes(t) : Less(t.h[n].Val, t.h[x].Val)}
    IN IF S = {} THEN Nil
       ELSE CHOOSE x \in S : \A y \in S : ~Less(t.h[y].Val, t.h[x].Val)

\* the node holding the largest stored value less than n.Val
Predecessor(t, n) ==
    LET S == {x \in Nodes(t) : Less(t.h[x].Val, t.h[n].Val)}
    IN IF S = {} THEN Nil
       ELSE CHOOSE x \in S : \A y \in S : ~Less(t.h[x].Val, t.h[y].Val)

NextPrev(t) ==
    /\ \A n \in Nodes(t) :
          /\ NodeNext(t.h, n) = Successor(t, n)
          /\ NodePrev(t.h, n) = Predecessor(t, n)
    /\ NodeNext(t.h, Max(t)) = Nil
    /\ NodePrev(t.h, Min(t)) = Nil
    /\ NodeNext(t.h, Nil) = Nil
    /\ NodePrev(t.h, Nil) = Nil

\* C11: for every node n reachable from the root, n.Next() is the node
\* with the smallest stored value greater than n.Val and n.Prev() the
\* node with the largest stored value less than n.Val; Next() of the
\* maximum, Prev() of the minimum and Next()/Prev() of nil are nil.
C11_NextPrev == NextPrev(tree) /\ NextPrev(old)

\* after a found Delete that rebalanced, some node without a side-1 child
\* has its Next above its parent, and some node has its Prev two or more
\* levels below it
C11_Witness ==
    /\ ret.op = "Delete" /\ ret.found /\ ret.log # <<>>
    /\ \E n \in Nodes(tree) :
          /\ tree.h[n].c[1] = Nil
          /\ NodeNext(tree.h, n) \notin {Nil, tree.h[n].p}
    /\ \E n \in Nodes(old) :
          /\ old.h[n].c[0] # Nil
          /\ NodePrev(old.h, n) # old.h[n].c[0]

\* --------------------------------------------------------------- C12
Extremes(t) ==
    /\ Min(t) = Nil <=> Size(t) = 0
    /\ Max(t) = Nil <=> Size(t) = 0
    /\ Min(t) # Nil =>
          /\ Min(t) \in Nodes(t)
          /\ \A x \in Nodes(t) \ {Min(t)} :
                Less(t.h[Min(t)].Val, t.h[x].Val)
    /\ Max(t) # Nil =>
          /\ Max(t) \in Nodes(t)
          /\ \A x \in Nodes(t) \ {Max(t)} :
                Less(t.h[x].Val, t.h[Max(t)].Val)

\* C12: after any sequence of Insert and Delete calls Min() is the node
\* with the smallest stored value and Max() the node with the largest;
\* both are nil exactly when the tree is empty.
C12_MinMax == Extremes(tree) /\ Extremes(old)

\* after a found Delete the minimum lies two levels below the root of one
\* tree and the maximum two levels below the root of the other
C12_Witness ==
    /\ ret.op = "Delete" /\ ret.found
    /\ Min(tree) # Nil /\ Max(old) # Nil
    /\ tree.h[Min(tree)].p # Nil /\ tree.h[tree.h[Min(tree)].p].p # Nil
    /\ old.h[Max(old)].p # Nil /\ old.h[old.h[Max(old)].p].p # Nil

\* --------------------------------------------------------------- C13
ParentLinks(t) ==
    /\ t.root # Nil => t.h[t.root].p = Nil
    /\ \A n \in Nodes(t) :
          \A i \in 0..1 :
              t.h[n].c[i] # Nil => t.h[t.h[n].c[i]].p = n

\* C13: after every completed Insert or Delete the root's parent is nil
\* and every child present under a reachable node n has n as its parent.
C13_ParentLinks == ParentLinks(tree) /\ ParentLinks(old)

\* a found Delete has gone through rotate in its fix-up, and the node
\* rotate moved down has a parent and a child
C13_Witness ==
    /\ ret.op = "Delete" /\ ret.found
    /\ \E i \in 1..Len(ret.log) : ret.log[i] = "rotate"
    /\ \E n \in Nodes(tree) :
          /\ tree.h[n].p # Nil
          /\ \E i \in 0..1 : tree.h[n].c[i] # Nil
    /\ \E n \in Nodes(old) :
          /\ old.h[n].p # Nil
          /\ \E i \in 0..1 : old.h[n].c[i] # Nil

\* --------------------------------------------------------------- C14
\* N(0) = 0, N(1) = 1, N(h) = N(h-1) + N(h-2) + 1
RECURSIVE MinNodes(_)
MinNodes(k) ==
    IF k = 0 THEN 0
    ELSE IF k = 1 THEN 1
    ELSE MinNodes(k - 1) + MinNodes(k - 2) + 1

HeightBound(t) ==
    /\ Cardinality(Nodes(t)) >= MinNodes(depth(t.h, t.root))
    /\ \A k \in 0..(Size(t) + 1) :
          MinNodes(k) > Size(t) => depth(t.h, t.root) < k

\* C14: a tree of height h holds at least N(h) nodes, so for a size n the
\* height is at most the largest h with N(h) <= n.
C14_HeightBound == HeightBound(tree) /\ HeightBound(old)

\* both trees are as tall as their size allows, four levels or more
C14_Witness ==
    /\ depth(tree.h, tree.root) >= 4
    /\ Cardinality(Nodes(tree)) = MinNodes(depth(tree.h, tree.root))
    /\ depth(old.h, old.root) >= 4
    /\ Size(old) = MinNodes(depth(old.h, old.root))

\* --------------------------------------------------------------- C15
\* the nodes the closure delete is entered with on the way to val
RECURSIVE SearchPath(_, _, _)
SearchPath(h, q, val) ==
    IF q = Nil THEN {}
    ELSE LET c == cmp(val, h[q].Val) IN
         IF c = 0 THEN {q}
         ELSE {q} \cup SearchPath(h, h[q].c[Side(c)], val)

\* the nodes del is entered with on the way to val
RECURSIVE OldSearchPath(_, _, _)
OldSearchPath(h, q, val) ==
    IF q = Nil THEN {}
    ELSE LET c == Sign(oldcmp(val, h[q].Val)) IN
         IF c = 0 THEN {q}
         ELSE {q} \cup OldSearchPath(h, h[q].c[Side(c)], val)

\* the nodes deletemin (delmin) is entered with
RECURSIVE Spine(_, _)
Spine(h, q) == IF q = Nil THEN {} ELSE {q} \cup Spine(h, h[q].c[0])

\* the **Node that holds x: &t.root or &x.p.c[a]
SlotOf(h, x) ==
    IF h[x].p = Nil THEN RootSlot
    ELSE <<h[x].p, IF h[h[x].p].c[0] = x THEN 0 ELSE 1>>

\* one call of deletefix(c, s) or delFix(c, t): the state it is entered
\* in, its arguments, and the node of the subtree it works on
FixCall(m, c, s, t) == [m |-> m, c |-> c, s |-> s, t |-> t]

\* a recursive call's result, if its signal sends the caller on to the
\* fix-up
Signalled(r) == {x \in {r} : x.fix /\ ~Panicked(x.m)}

\* the state Tree.Delete has reached when it found val in q
Found(m, q) ==
    [m EXCEPT !.size = @ - 1, !.delval = m.h[q].Val, !.found = TRUE]

\* the calls of deletefix that Delete(val) makes on t:
\*   q.c[a], fix = delete(q.c[a]);         if fix { deletefix(-c, q) }
\*   q.c[1], fix = deletemin(q.c[1], &min); if fix { deletefix(-1, q) }
\*   q.c[0], fix = deletemin(q.c[0], min);  if fix { deletefix(1, q) }
DeleteFixCalls(t, val) ==
    LET h    == t.h
        M    == Machine(t)
        path == SearchPath(h, t.root, val)
        hit  == {q \in path : cmp(val, h[q].Val) = 0}
    IN UNION (
        {LET c == cmp(val, h[q].Val)
             a == Side(c)
         IN {FixCall([r.m EXCEPT !.h[q].c[a] = r.n], -c, q, RootSlot) :
                r \in Signalled(delete(M, val, h[q].c[a]))} : q \in path \ hit}
        \cup
        {{FixCall([r.m EXCEPT !.h[q].c[1] = r.n, !.h[q].Val = r.m.min],
                  -1, q, RootSlot) :
                r \in Signalled(deletemin(Found(M, q), h[q].c[1]))} :
            q \in {x \in hit : h[x].c[1] # Nil}}
        \cup
        UNION {{{FixCall([r.m EXCEPT !.h[x].c[0] = r.n], 1, x, RootSlot) :
                    r \in Signalled(deletemin(Found(M, q), h[x].c[0]))} :
                x \in {y \in Spine(h, h[q].c[1]) : h[y].c[0] # Nil}} :
            q \in hit})

\* the calls of delFix that Delete(val) makes on the oldavl.Tree t:
\*   if !t.del(val, &q.c[a]) { return false }; return delFix(-c, qp)
\*   if !delmin(&q.c[1], &q.Val) { return false }; return delFix(-1, qp)
\*   if !delmin(&q.c[0], min) { return false }; return delFix(1, qp)
DelFixCalls(t, val) ==
    LET h    == t.h
        M    == Machine(t)
        path == OldSearchPath(h, t.root, val)
        hit  == {q \in path : oldcmp(val, h[q].Val) = 0}
        Sz(m) == [m EXCEPT !.size = @ - 1]
    IN UNION (
        {LET c == Sign(oldcmp(val, h[q].Val))
             a == Side(c)
         IN {FixCall(r.m, -c, q, SlotOf(h, q)) :
                r \in Signalled(del(M, val, <<q, a>>))} : q \in path \ hit}
        \cup
        {{FixCall(r.m, -1, q, SlotOf(h, q)) :
                r \in Signalled(delmin(Sz(M), <<q, 1>>, q))} :
            q \in {x \in hit : h[x].c[1] # Nil}}
        \cup
        UNION {{{FixCall(r.m, 1, x, SlotOf(h, x)) :
                    r \in Signalled(delmin(Sz(M), <<x, 0>>, q))} :
                x \in {y \in Spine(h, h[q].c[1]) : h[y].c[0] # Nil}} :
            q \in hit})

\* the case of the fix-up in question: s leans to side c and its child
\* on that side is level
RotateCase(k) ==
    LET a == Side(k.c) IN
    /\ k.m.h[k.s].b = k.c
    /\ k.m.h[k.s].c[a] # Nil
    /\ k.m.h[k.m.h[k.s].c[a]].b = 0

\* what rotate(c, s) followed by s.b = -c makes of the heap
Rotated(k) ==
    LET r == rotate(k.m.h, k.c, k.s) IN [r.h EXCEPT ![r.n].b = -k.c]

\* the same with the new subtree root stored through the slot: *t = s
RotatedSlot(k) ==
    Store([k.m EXCEPT !.h = Rotated(k)], k.t, k.m.h[k.s].c[Side(k.c)]).h

\* the fix-up has applied the one rotate(c, s): the child of s on side a
\* is the new subtree root and has balance -c
RotateApplied(k, h, n, log, rotated) ==
    /\ n = k.m.h[k.s].c[Side(k.c)]
    /\ h = rotated
    /\ h[n].b = -k.c
    /\ log = Append(k.m.log, "rotate")

\* C15 as stated: in that case of the delete fix-up one rotate(c, s) is
\* applied, the new subtree root gets balance -c, the subtree is one
\* lower than before the deletion, and the height-shrank signal is
\* returned.
C15_AsStated ==
    \A v \in Ints :
        /\ \A k \in DeleteFixCalls(tree, v) :
              RotateCase(k) =>
                  \A r \in {deletefix(k.m, k.c, k.s)} :
                      /\ RotateApplied(k, r.m.h, r.n, r.m.log, Rotated(k))
                      /\ depth(r.m.h, r.n) = depth(tree.h, k.s) - 1
                      /\ r.fix
        /\ \A k \in DelFixCalls(old, v) :
              RotateCase(k) =>
                  \A r \in {delFix(k.m, k.c, k.t)} :
                      /\ RotateApplied(k, r.m.h, Load(r.m, k.t), r.m.log,
                                       RotatedSlot(k))
                      /\ depth(r.m.h, Load(r.m, k.t)) = depth(old.h, k.s) - 1
                      /\ r.fix

\* C15: in that case of the delete fix-up one rotate(c, s) is applied,
\* the new subtree root gets balance -c, the subtree is as high as it
\* was before the deletion, and the signal returned is false: the fix-up
\* ends there.
C15_RotateKeepsHeight ==
    \A v \in Ints :
        /\ \A k \in DeleteFixCalls(tree, v) :
              RotateCase(k) =>
                  \A r \in {deletefix(k.m, k.c, k.s)} :
                      /\ RotateApplied(k, r.m.h, r.n, r.m.log, Rotated(k))
                      /\ depth(r.m.h, r.n) = depth(tree.h, k.s)
                      /\ ~r.fix
        /\ \A k \in DelFixCalls(old, v) :
              RotateCase(k) =>
                  \A r \in {delFix(k.m, k.c, k.t)} :
                      /\ RotateApplied(k, r.m.h, Load(r.m, k.t), r.m.log,
                                       RotatedSlot(k))
                      /\ depth(r.m.h, Load(r.m, k.t)) = depth(old.h, k.s)
                      /\ ~r.fix

\* some Delete on this state takes the fix-up into that case at a node
\* below the root, in both trees: a parent is waiting for the signal
C15_Witness ==
    /\ \E v \in Ints : \E k \in DeleteFixCalls(tree, v) :
          RotateCase(k) /\ k.s # tree.root
    /\ \E v \in Ints : \E k \in DelFixCalls(old, v) :
          RotateCase(k) /\ k.t # RootSlot

\* --------------------------------------------------------------- C16
\* the calls insert(p, q) that Insert(val) makes on t, as <<p, q>>
InsertCalls(t, val) ==
    LET h    == t.h
        path == SearchPath(h, t.root, val)
    IN {<<h[q].p, q>> : q \in path}
       \cup {<<q, Nil>> : q \in {x \in path :
                /\ cmp(val, h[x].Val) # 0
                /\ h[x].c[Side(cmp(val, h[x].Val))] = Nil}}
       \cup {<<Nil, x>> : x \in {t.root} \cap {Nil}}

\* the slots qp of the calls t.insert(val, p, qp) that Insert(val) makes
OldInsertCalls(t, val) ==
    LET h    == t.h
        path == OldSearchPath(h, t.root, val)
    IN {SlotOf(h, q) : q \in path}
       \cup {<<q, Side(Sign(oldcmp(val, h[q].Val)))>> : q \in {x \in path :
                /\ oldcmp(val, h[x].Val) # 0
                /\ h[x].c[Side(Sign(oldcmp(val, h[x].Val)))] = Nil}}
       \cup {RootSlot : x \in {t.root} \cap {Nil}}

\* the calls of insertfix that Insert(val) makes on t:
\*   q.c[a], fix = insert(q, q.c[a]); if fix { return insertfix(c, q) }
InsertFixCalls(t, val) ==
    LET h    == t.h
        M    == Machine(t)
        path == SearchPath(h, t.root, val)
    IN UNION {LET c == cmp(val, h[q].Val)
                  a == Side(c)
              IN {FixCall([r.m EXCEPT !.h[q].c[a] = r.n], c, q, RootSlot) :
                     r \in Signalled(insert(M, val, q, h[q].c[a]))} :
              q \in {x \in path : cmp(val, h[x].Val) # 0}}

\* the calls of insertFix that Insert(val) makes on the oldavl.Tree t:
\*   fix := t.insert(val, q, &q.c[a]); if fix { return insertFix(c, qp) }
OldInsertFixCalls(t, val) ==
    LET h    == t.h
        M    == Machine(t)
        path == OldSearchPath(h, t.root, val)
    IN UNION {LET c == Sign(oldcmp(val, h[q].Val))
                  a == Side(c)
              IN {FixCall(r.m, c, q, SlotOf(h, q)) :
                     r \in Signalled(oldinsert(M, val, q, <<q, a>>))} :
              q \in {x \in path : oldcmp(val, h[x].Val) # 0}}

\* the nodes above n
RECURSIVE Ancestors(_, _)
Ancestors(h, n) ==
    IF h[n].p = Nil THEN {} ELSE {h[n].p} \cup Ancestors(h, h[n].p)

\* 1 for the signal true, 0 for false
Step(fix) == IF fix THEN 1 ELSE 0

\* the balance factors of the nodes above n are in m what they are in t
SameAbove(t, n, m) == \A x \in Ancestors(t.h, n) : m.h[x].b = t.h[x].b

\* the log of one fix-up that rotated
OneRotation(log) == Len(log) = 1 /\ log[1] \in {"singlerot", "doublerot"}

\* C16: during one Insert every recursive insert returns the signal true
\* exactly when the subtree it hands back is one higher than the subtree
\* it was called on, and false when it is as high; a fix-up that rotates
\* hands back a subtree as high as before the insertion with the signal
\* false, so one Insert rebalances at most once and changes no balance
\* factor above the rotation.
C16_InsertSignal ==
    \A v \in Ints :
        /\ \A pq \in InsertCalls(tree, v) :
              \A r \in {insert(Machine(tree), v, pq[1], pq[2])} :
                  depth(r.m.h, r.n) = depth(tree.h, pq[2]) + Step(r.fix)
        /\ \A qp \in OldInsertCalls(old, v) :
              \A r \in {oldinsert(Machine(old), v, qp[1], qp)} :
                  depth(r.m.h, Load(r.m, qp))
                      = depth(old.h, Load(old, qp)) + Step(r.fix)
        /\ \A m \in {TreeInsert(Machine(tree), v)} :
              /\ Len(m.log) <= 1
              /\ \A k \in InsertFixCalls(tree, v) :
                    k.m.h[k.s].b = k.c =>
                        /\ SameAbove(tree, k.s, m)
                        /\ \A r \in {insertfix(k.m, k.c, k.s)} :
                              /\ ~r.fix
                              /\ OneRotation(r.m.log)
                              /\ depth(r.m.h, r.n) = depth(tree.h, k.s)
        /\ \A o \in {OldInsert(Machine(old), v)} :
              /\ Len(o.log) <= 1
              /\ \A k \in OldInsertFixCalls(old, v) :
                    k.m.h[k.s].b = k.c =>
                        /\ SameAbove(old, k.s, o)
                        /\ \A r \in {insertFix(k.m, k.c, k.t)} :
                              /\ ~r.fix
                              /\ OneRotation(r.m.log)
                              /\ depth(r.m.h, Load(r.m, k.t))
                                    = depth(old.h, k.s)

\* some Insert on this state runs a double rotation below the root of
\* the one tree, and some Insert a single rotation below the root of the
\* other
C16_Witness ==
    /\ \E v \in Ints : \E k \in InsertFixCalls(tree, v) :
          /\ k.m.h[k.s].b = k.c
          /\ insertfix(k.m, k.c, k.s).m.log = <<"doublerot">>
          /\ Ancestors(tree.h, k.s) # {}
    /\ \E v \in Ints : \E k \in OldInsertFixCalls(old, v) :
          /\ k.m.h[k.s].b = k.c
          /\ insertFix(k.m, k.c, k.t).m.log = <<"singlerot">>
          /\ k.t # RootSlot

\* --------------------------------------------------------------- C17
\* the nodes q of the calls delete(q) that Delete(val) makes on t: the
\* search path, and nil at its end when val is not stored
DeleteCalls(t, val) == {pq[2] : pq \in InsertCalls(t, val)}

\* the slots qp of the calls t.del(val, qp) that Delete(val) makes
DelCalls(t, val) == OldInsertCalls(t, val)

\* the calls deletemin(q, &min) that Delete(val) makes on t: the state
\* each is entered in and its q
DeleteMinCalls(t, val) ==
    LET h   == t.h
        hit == {q \in SearchPath(h, t.root, val) : cmp(val, h[q].Val) = 0}
    IN UNION {{[m |-> Found(Machine(t), f), q |-> x] :
                  x \in Spine(h, h[f].c[1])} : f \in hit}

\* the calls delmin(qp, &q.Val) that Delete(val) makes on the
\* oldavl.Tree t: the state each is entered in, its qp and the node
\* whose Val min points to
DelMinCalls(t, val) ==
    LET h   == t.h
        hit == {q \in OldSearchPath(h, t.root, val) :
                   oldcmp(val, h[q].Val) = 0}
    IN UNION {{[m |-> [Machine(t) EXCEPT !.size = @ - 1],
                qp |-> SlotOf(h, x), target |-> f] :
                  x \in Spine(h, h[f].c[1])} : f \in hit}

\* C17: during one Delete every call of delete, deletemin and deletefix
\* (del, delmin and delFix in oldavl.go) returns the signal true exactly
\* when the subtree it hands back is one lower than that subtree was
\* before the deletion reached it, and false exactly when it is as high;
\* the height never changes by more than one.  The fix-up is the tail of
\* the call that makes it: its subtree is measured as that call found it.
C17_DeleteSignal ==
    \A v \in Ints :
        /\ \A q \in DeleteCalls(tree, v) :
              \A r \in {delete(Machine(tree), v, q)} :
                  depth(r.m.h, r.n) = depth(tree.h, q) - Step(r.fix)
        /\ \A k \in DeleteMinCalls(tree, v) :
              \A r \in {deletemin(k.m, k.q)} :
                  depth(r.m.h, r.n) = depth(tree.h, k.q) - Step(r.fix)
        /\ \A k \in DeleteFixCalls(tree, v) :
              \A r \in {deletefix(k.m, k.c, k.s)} :
                  depth(r.m.h, r.n) = depth(tree.h, k.s) - Step(r.fix)
        /\ \A qp \in DelCalls(old, v) :
              \A r \in {del(Machine(old), v, qp)} :
                  depth(r.m.h, Load(r.m, qp))
                      = depth(old.h, Load(old, qp)) - Step(r.fix)
        /\ \A k \in DelMinCalls(old, v) :
              \A r \in {delmin(k.m, k.qp, k.target)} :
                  depth(r.m.h, Load(r.m, k.qp))
                      = depth(old.h, Load(old, k.qp)) - Step(r.fix)
        /\ \A k \in DelFixCalls(old, v) :
              \A r \in {delFix(k.m, k.c, k.t)} :
                  depth(r.m.h, Load(r.m, k.t))
                      = depth(old.h, k.s) - Step(r.fix)

\* some Delete on this state goes through deletemin below the first
\* node of the side-1 subtree and through three fix-ups that return
\* true, and some Delete through a fix-up that returns false, in both
\* trees
C17_Witness ==
    /\ \E v \in Ints :
          /\ \E k \in DeleteMinCalls(tree, v) :
                /\ tree.h[k.q].c[0] = Nil
                /\ tree.h[tree.h[k.q].p].c[0] = k.q
          /\ Cardinality(DeleteFixCalls(tree, v)) >= 3
          /\ \A k \in DeleteFixCalls(tree, v) : deletefix(k.m, k.c, k.s).fix
    /\ \E v \in Ints :
          \E k \in DeleteFixCalls(tree, v) : ~deletefix(k.m, k.c, k.s).fix
    /\ \E v \in Ints :
          /\ \E k \in DelMinCalls(old, v) : k.qp[2] = 0
          /\ Cardinality(DelFixCalls(old, v)) >= 3
          /\ \A k \in DelFixCalls(old, v) : delFix(k.m, k.c, k.t).fix
    /\ \E v \in Ints :
          \E k \in DelFixCalls(old, v) : ~delFix(k.m, k.c, k.t).fix

\* --------------------------------------------------------------- C18
\* C18: with the total order of the keys, no sequence of Insert and
\* Delete calls ends in the panic "doublerot: bad parents", and none in
\* a nil pointer dereference (s.c[a] in a fix-up, r.c[a^1] in rotate).
C18_NoPanic ==
    ret.panic \notin {"doublerot: bad parents", "nil dereference"}

\* an Insert into trees of five or more nodes has gone through doublerot
\* and its check, and has returned
C18_Witness ==
    /\ ret.op = "Insert" /\ ret.panic = ""
    /\ ret.log = <<"doublerot">>
    /\ Size(tree) >= 6 /\ Size(old) >= 6

\* --------------------------------------------------------------- C19
\* the node Delete(val) finds val in, if any
Hit(t, val) ==
    {q \in SearchPath(t.h, t.root, val) : cmp(val, t.h[q].Val) = 0}

OldHit(t, val) ==
    {q \in OldSearchPath(t.h, t.root, val) : oldcmp(val, t.h[q].Val) = 0}

\* t with val deleted is m: the node q that held val keeps its place and
\* holds the value of the minimum of its side-1 subtree, and the node
\* that held that value is the one that has left the tree
SuccessorLeaves(t, q, m) ==
    LET succ == descend(t.h, t.h[q].c[1], 0) IN
    /\ succ = Successor(t, q)
    /\ Subtree(m.h, m.root) = Nodes(t) \ {succ}
    /\ m.h[q].Val = t.h[succ].Val

\* t with val deleted is m: the node q that held val has left the tree
\* and its side-0 child, if any, hangs where q hung
NodeLeaves(t, q, m) ==
    LET c0 == t.h[q].c[0]
        p  == t.h[q].p
    IN
    /\ Subtree(m.h, m.root) = Nodes(t) \ {q}
    /\ c0 # Nil => m.h[c0].p = p
    /\ IF p = Nil THEN m.root = c0
       ELSE \A i \in 0..1 : t.h[p].c[i] = q => m.h[p].c[i] = c0

\* C19: when Delete(v) finds v in a node q with a side-1 child, q stays
\* in the tree and holds the value of v's in-order successor, and the
\* node that held the successor is the one no longer reachable from the
\* root; when q has no side-1 child, q is the one no longer reachable and
\* its side-0 child, if any, takes its place.
C19_NodeIdentity ==
    \A v \in Ints :
        /\ \A q \in Hit(tree, v) :
              \A m \in {TreeDelete(Machine(tree), v)} :
                  IF tree.h[q].c[1] # Nil
                  THEN SuccessorLeaves(tree, q, m)
                  ELSE NodeLeaves(tree, q, m)
        /\ \A q \in OldHit(old, v) :
              \A o \in {OldDelete(Machine(old), v)} :
                  IF old.h[q].c[1] # Nil
                  THEN SuccessorLeaves(old, q, o)
                  ELSE NodeLeaves(old, q, o)

\* one value of this state sits in a node whose successor lies below
\* its side-1 child, and the Delete of it rebalances; one sits in such a
\* node below the root; another sits in a node that has a side-0 child
\* only
C19_Witness ==
    /\ \E v \in Ints : \E q \in Hit(tree, v) :
          /\ tree.h[q].c[1] # Nil
          /\ tree.h[tree.h[q].c[1]].c[0] # Nil
          /\ TreeDelete(Machine(tree), v).log # <<>>
    /\ \E v \in Ints : \E q \in OldHit(old, v) :
          /\ old.h[q].p # Nil
          /\ old.h[q].c[1] # Nil
          /\ old.h[old.h[q].c[1]].c[0] # Nil
    /\ \E v \in Ints : \E q \in Hit(tree, v) :
          tree.h[q].c[1] = Nil /\ tree.h[q].c[0] # Nil
    /\ \E v \in Ints : \E q \in OldHit(old, v) :
          old.h[q].c[1] = Nil /\ old.h[q].c[0] # Nil

\* --------------------------------------------------------------- C20
\* m is t with the value of node q replaced by val and nothing else
\* touched, no rotation entered
OnlyValReplaced(t, q, val, m) ==
    /\ m.h = [t.h EXCEPT ![q].Val = val]
    /\ m.root = t.root
    /\ m.size = Size(t)
    /\ m.log = <<>>
    /\ m.panic = ""

\* C20: Insert(e2) on a tree that stores an element e1 equal to e2
\* changes the value of that one node to e2 and nothing else: a Lookup
\* that follows returns e2, and the shape, the child and parent links,
\* the balance factors and Size() are as before; no rotation is made.
C20_ReplaceFrame ==
    \A v \in IntStrings :
        /\ \A q \in Hit(tree, v) :
              \A m \in {TreeInsert(Machine(tree), v)} :
                  /\ OnlyValReplaced(tree, q, v, m)
                  /\ Lookup(After(m), v) = [val |-> v, ok |-> TRUE]
        /\ \A q \in OldHit(old, v) :
              \A o \in {OldInsert(Machine(old), v)} :
                  /\ OnlyValReplaced(old, q, v, o)
                  /\ OldLookup(After(o), v) = [val |-> v, ok |-> TRUE]

\* an Insert has put an element in the place of a different, equal one,
\* in a node below the root that is out of balance by one
C20_Witness ==
    /\ ret.op = "Insert" /\ ret.found /\ ret.val # ret.arg
    /\ \E q \in Hit(tree, ret.arg) :
          /\ tree.h[q].Val = ret.arg
          /\ tree.h[q].p # Nil /\ tree.h[q].b # 0
    /\ \E q \in OldHit(old, ret.arg) :
          /\ old.h[q].Val = ret.arg
          /\ old.h[q].p # Nil /\ old.h[q].b # 0

\* --------------------------------------------------------------- C21
\* the element of the parent of n, none for the root
ParentVal(h, n) == IF h[n].p = Nil THEN NoVal ELSE h[h[n].p].Val

\* the subtree at n1 in h1 and the subtree at n2 in h2 have the same
\* shape and, position by position, the same value, the same balance
\* factor and the same parent
RECURSIVE SameSubtree(_, _, _, _)
SameSubtree(h1, n1, h2, n2) ==
    IF n1 = Nil \/ n2 = Nil THEN n1 = n2
    ELSE /\ h1[n1].Val = h2[n2].Val
         /\ h1[n1].b = h2[n2].b
         /\ ParentVal(h1, n1) = ParentVal(h2, n2)
         /\ \A i \in 0..1 :
               SameSubtree(h1, h1[n1].c[i], h2, h2[n2].c[i])

Equivalent(t, o) ==
    /\ SameSubtree(t.h, t.root, o.h, o.root)
    /\ Size(t) = Size(o)

\* C21: the avl.Tree of part_001 and the oldavl.Tree, given the same
\* Insert and Delete calls from the empty tree, are the same tree after
\* every call: same shape, same value, balance factor and parent in each
\* position, same Size(); and the next call, whatever it is, leaves them
\* the same again.
C21_Equivalent ==
    /\ Equivalent(tree, old)
    /\ \A v \in Ints :
          /\ \A m \in {TreeInsert(Machine(tree), v)} :
                \A o \in {OldInsert(Machine(old), v)} :
                    Equivalent(After(m), After(o)) /\ m.log = o.log
          /\ \A m \in {TreeDelete(Machine(tree), v)} :
                \A o \in {OldDelete(Machine(old), v)} :
                    Equivalent(After(m), After(o)) /\ m.log = o.log

\* a found Delete has taken both trees through a double rotation and
\* has left six or more nodes on three or more levels in each
C21_Witness ==
    /\ ret.op = "Delete" /\ ret.found
    /\ ret.log = <<"doublerot">>
    /\ Cardinality(Nodes(tree)) >= 6 /\ Cardinality(Nodes(old)) >= 6
    /\ depth(tree.h, tree.root) >= 3 /\ depth(old.h, old.root) >= 3

====
